---- MODULE Spec2Model ----
(***************************************************************************)
(* Model of app/routers.py of the jaffle-shop API: the paged list          *)
(* handlers, the get-by-id handlers and order enrichment, over a read-only *)
(* DuckDB database, together with a client that follows Link headers.      *)
(*                                                                         *)
(* SQL text is modelled as a record (table, WHERE tokens, ORDER BY tokens, *)
(* LIMIT, OFFSET) that the engine operator Execute evaluates; a query      *)
(* string is a sequence of <<name, value>> pairs of strings.               *)
(***************************************************************************)
EXTENDS Integers, Sequences, FiniteSets, TLC

(***************************************************************************)
(* Bounds of the model.                                                    *)
(***************************************************************************)
\* rows held by every table but items
MaxRows == 3
\* rows held by the items table
MaxItems == 3
\* largest page number a client asks for directly or reaches through a link;
\* above MaxRows, so that a traversal in pages of one row reaches its last page
MaxPage == 4
\* largest page_size a client asks for
MaxPageSize == 2

\* app.const.DEFAULT_PAGE_SIZE (imported at routers.py:12); a small stand-in
DEFAULT_PAGE_SIZE == 2
\* app.const.API_V1_PREFIX (imported at routers.py:12)
API_V1_PREFIX == "/api/v1"

Tables == {"customers", "orders", "items", "products", "stores", "supplies"}

(***************************************************************************)
(* Strings.  TLC strings are atomic, so the conversions between integers,  *)
(* dates and their text, and percent-encoding, are tables over the values  *)
(* the model uses.                                                         *)
(***************************************************************************)
NumStrs == <<"-1", "0", "1", "2", "3", "4", "5", "6", "7", "8", "9">>

\* str(n), as urlencode applies it to the int stored under "page"
Str(n) == NumStrs[n + 2]

\* int(s), as FastAPI converts a `page: int` query parameter
ParseInt(s) == CHOOSE n \in -1..9 : Str(n) = s

DateStrs == <<"2023-01-01", "2023-01-02", "2023-01-03">>

IsDateStr(s) == \E i \in DOMAIN DateStrs : DateStrs[i] = s

\* '<text>' compared with a DATE: DuckDB casts the literal to a date (day number)
ParseDate(s) == CHOOSE i \in DOMAIN DateStrs : DateStrs[i] = s

\* urllib.parse.quote_plus on the values of the model: a space becomes "+",
\* a literal "+" becomes "%2B", unreserved characters stay
QuotePlus(s) ==
  CASE s = "a b" -> "a+b"
    [] s = "a+b" -> "a%2Bb"
    [] OTHER -> s

\* the client's decoding of a query-string value (unquote_plus)
UnquotePlus(s) ==
  CASE s = "a+b" -> "a b"
    [] s = "a%2Bb" -> "a+b"
    [] OTHER -> s

(***************************************************************************)
(* The database: per table its column names and its rows (tuples aligned   *)
(* to the columns), in insertion order.                                    *)
(***************************************************************************)
Columns(t) ==
  CASE t = "customers" -> <<"id", "name">>
    [] t = "orders" -> <<"id", "customer_id", "ordered_at", "store_id">>
    [] t = "items" -> <<"id", "order_id", "sku">>
    [] t = "products" -> <<"sku", "name">>
    [] t = "stores" -> <<"id", "name">>
    [] t = "supplies" -> <<"id", "name", "sku">>

\* the column each get-by-id handler compares with its path parameter
KeyColumn(t) == IF t = "products" THEN "sku" ELSE "id"

CustomerIds == <<"c1", "c2", "c3", "c4", "c5">>
OrderIds == <<"o1", "o2", "o3", "o4", "o5">>
ItemIds == <<"i1", "i2", "i3", "i4", "i5">>
Skus == <<"sku1", "sku2", "sku3", "sku4", "sku5">>
StoreIds == <<"s1", "s2", "s3", "s4", "s5">>
SupplyIds == <<"u1", "u2", "u3", "u4", "u5">>

\* ordered_at of the i-th order: a timestamp, as day number and hour
OrderedAt == << [day |-> 2, hour |-> 9], [day |-> 1, hour |-> 23], [day |-> 3, hour |-> 0],
                [day |-> 2, hour |-> 23], [day |-> 1, hour |-> 0] >>

\* order_id of the i-th item; "o9" is an order that does not exist
ItemOrder == <<"o1", "o3", "o1", "o9", "o2">>

MasterRow(t, i) ==
  CASE t = "customers" -> <<CustomerIds[i], "name">>
    [] t = "orders" -> <<OrderIds[i], CustomerIds[i], OrderedAt[i], StoreIds[1]>>
    [] t = "items" -> <<ItemIds[i], ItemOrder[i], Skus[1]>>
    [] t = "products" -> <<Skus[i], "name">>
    [] t = "stores" -> <<StoreIds[i], "name">>
    [] t = "supplies" -> <<SupplyIds[i], "name", Skus[1]>>

\* a database whose items table holds m rows and every other table n rows
MkDb(n, m) ==
  [t \in Tables |-> [i \in 1..(IF t = "items" THEN m ELSE n) |-> MasterRow(t, i)]]

\* path identifiers a client asks for: the keys of the table and one that is in no table
Identifiers(t) ==
  {MasterRow(t, i)[1] : i \in 1..MaxRows} \cup {"zz"}

(***************************************************************************)
(* SQL.  A WHERE clause is a sequence of tokens.                           *)
(***************************************************************************)
Tok(kind, col, op, val) == [tok |-> kind, col |-> col, op |-> op, val |-> val]
WHERE == Tok("WHERE", "", "", "")
AND == Tok("AND", "", "", "")
Cond(col, op, val) == Tok("cond", col, op, val)

ColIndex(t, c) == CHOOSE i \in DOMAIN Columns(t) : Columns(t)[i] = c

\* a condition the engine can evaluate on table t
CondOk(t, c) ==
  /\ c.tok = "cond"
  /\ \/ /\ c.col = "ordered_at::DATE"
        /\ \E i \in DOMAIN Columns(t) : Columns(t)[i] = "ordered_at"
        /\ c.op \in {">=", "<=", ">", "<"}
        /\ IsDateStr(c.val)
     \/ /\ \E i \in DOMAIN Columns(t) : Columns(t)[i] = c.col
        /\ c.col # "ordered_at"
        /\ c.op = "="

\* WHERE cond (AND cond)*, or nothing
WhereOk(t, w) ==
  \/ w = <<>>
  \/ /\ Len(w) % 2 = 0
     /\ w[1] = WHERE
     /\ \A i \in 2..Len(w) : IF i % 2 = 0 THEN CondOk(t, w[i]) ELSE w[i] = AND

EvalCond(t, row, c) ==
  IF c.col = "ordered_at::DATE"
  THEN LET d == row[ColIndex(t, "ordered_at")].day
           v == ParseDate(c.val)
       IN CASE c.op = ">=" -> d >= v
            [] c.op = "<=" -> d <= v
            [] c.op = ">" -> d > v
            [] c.op = "<" -> d < v
  ELSE row[ColIndex(t, c.col)] = c.val

Matching(t, rows, w) ==
  SelectSeq(rows, LAMBDA r : \A i \in 2..Len(w) : i % 2 = 0 => EvalCond(t, r, w[i]))

\* rows[offset+1 .. offset+limit]
Window(rows, limit, offset) ==
  LET lo == offset + 1
      hi == IF offset + limit < Len(rows) THEN offset + limit ELSE Len(rows)
  IN IF lo > hi THEN <<>> ELSE SubSeq(rows, lo, hi)

SqlCount(t, w) == [kind |-> "count", table |-> t, where |-> w, sort |-> <<>>,
                   limited |-> FALSE, limit |-> 0, offset |-> 0]
SqlSelect(t, w) == [kind |-> "select", table |-> t, where |-> w, sort |-> <<>>,
                    limited |-> FALSE, limit |-> 0, offset |-> 0]
SqlPage(t, w, s, limit, offset) == [kind |-> "select", table |-> t, where |-> w, sort |-> s,
                                    limited |-> TRUE, limit |-> limit, offset |-> offset]

Failed == [ok |-> FALSE, count |-> 0, columns |-> <<>>, rows |-> <<>>]

\* DuckDB on one statement.  Without ORDER BY a scan of one table with WHERE,
\* LIMIT and OFFSET keeps insertion order; a negative LIMIT or OFFSET and a
\* malformed clause are errors.  No ORDER BY clause is evaluated: every caller
\* leaves sort_by empty.
Execute(d, q) ==
  IF \/ ~WhereOk(q.table, q.where)
     \/ q.sort # <<>>
     \/ q.limited /\ (q.limit < 0 \/ q.offset < 0)
  THEN Failed
  ELSE LET m == Matching(q.table, d[q.table], q.where)
       IN IF q.kind = "count"
          THEN [ok |-> TRUE, count |-> Len(m), columns |-> <<"count_star()">>, rows |-> <<>>]
          ELSE [ok |-> TRUE, count |-> 0, columns |-> Columns(q.table),
                rows |-> IF q.limited THEN Window(m, q.limit, q.offset) ELSE m]

\* the k-th statement of a request; statement number failAt fails in the engine
Run(d, q, k, failAt) == IF k = failAt THEN Failed ELSE Execute(d, q)

(***************************************************************************)
(* Request parameters, as FastAPI binds them from the query string: a      *)
(* scalar parameter takes the last value given under its name, or its      *)
(* default.                                                                *)
(***************************************************************************)
HasParam(query, name) == \E i \in DOMAIN query : query[i][1] = name

LastValue(query, name) ==
  query[CHOOSE i \in DOMAIN query :
          /\ query[i][1] = name
          /\ \A j \in DOMAIN query : query[j][1] = name => j <= i][2]

\* `page: int = 1`, `page_size: int = DEFAULT_PAGE_SIZE`
IntParam(query, name, default) ==
  IF HasParam(query, name) THEN ParseInt(LastValue(query, name)) ELSE default

\* `start_date: str = None`: given tells None from a string
StrParam(query, name) ==
  IF HasParam(query, name) THEN [given |-> TRUE, v |-> LastValue(query, name)]
  ELSE [given |-> FALSE, v |-> ""]

\* Python truth of an optional string: None and "" are false
Truthy(p) == p.given /\ p.v # ""

\* dict(request.query_params): one entry per name, in order of first
\* occurrence, holding the last value given under that name
DictOf(query) ==
  LET firsts == SelectSeq([i \in DOMAIN query |-> i],
                          LAMBDA i : \A j \in 1..(i - 1) : query[j][1] # query[i][1])
  IN [k \in DOMAIN firsts |-> <<query[firsts[k]][1], LastValue(query, query[firsts[k]][1])>>]

\* dct[key] = val
DictSet(dct, key, val) ==
  IF \E i \in DOMAIN dct : dct[i][1] = key
  THEN [i \in DOMAIN dct |-> IF dct[i][1] = key THEN <<key, val>> ELSE dct[i]]
  ELSE Append(dct, <<key, val>>)

\* urllib.parse.urlencode(dct): name=value pairs, each side quoted
urlencode(dct) == [i \in DOMAIN dct |-> <<QuotePlus(dct[i][1]), QuotePlus(dct[i][2])>>]

(***************************************************************************)
(* routers.py.  Every helper returns [exc, value, headers, log]: the       *)
(* exception that left it ("" when it returned), the value it returned,    *)
(* the headers it set on the Response object, the statements it sent,      *)
(* each with whether the engine answered it.                               *)
(***************************************************************************)
Sent(query, cursor) == <<[sql |-> query, ok |-> cursor.ok]>>

NoHeaders == [h \in {} |-> <<>>]

Raised(exc, log) == [exc |-> exc, value |-> <<>>, headers |-> NoHeaders, log |-> log]
Returned(value, headers, log) == [exc |-> "", value |-> value, headers |-> headers, log |-> log]

\* dict(zip(column_names, row))
ZipDict(cols, row) ==
  [c \in {cols[i] : i \in DOMAIN cols} |-> row[CHOOSE i \in DOMAIN cols : cols[i] = c]]

\* _get_list_response, sending its statement as number k of the request
_get_list_response(d, query, k, failAt) ==
  LET cursor == Run(d, query, k, failAt)
  IN IF ~cursor.ok THEN Raised("QueryError", Sent(query, cursor))
     ELSE Returned([i \in DOMAIN cursor.rows |-> ZipDict(cursor.columns, cursor.rows[i])],
                   NoHeaders, Sent(query, cursor))

\* Offset with the page taken as 0-based
Offset_ZeroBased(page, page_size) == page * page_size

\* Offset without the page size
Offset_Unscaled(page, page_size) == page - 1

\* offset = (page - 1) * page_size
Offset(page, page_size) == (page - 1) * page_size

\* last_item = offset + page_size
LastItem(page, page_size) == Offset(page, page_size) + page_size

\* HasNext with the boundary included
HasNext_Inclusive(last_item, count) == last_item <= count

\* `last_item < count and response`: the Response object is always injected
HasNext(last_item, count) == last_item < count

\* NextLink with the query string joined without quoting
NextLink_Unquoted(table_name, request_query, page) ==
  [url |-> <<API_V1_PREFIX, table_name>>,
   qs |-> DictSet(DictOf(request_query), "page", Str(page + 1)),
   rel |-> "next"]

\* NextLink naming the page just served
NextLink_SamePage(table_name, request_query, page) ==
  [url |-> <<API_V1_PREFIX, table_name>>,
   qs |-> urlencode(DictSet(DictOf(request_query), "page", Str(page))),
   rel |-> "next"]

\* query_params = dict(request.query_params); query_params["page"] = page + 1;
\* next_link = f'<{url}?{urlencode(query_params)}>; rel="next"'
NextLink(table_name, request_query, page) ==
  [url |-> <<API_V1_PREFIX, table_name>>,
   qs |-> urlencode(DictSet(DictOf(request_query), "page", Str(page + 1))),
   rel |-> "next"]

\* PageLimit fetching one row more
PageLimit_PlusOne(page_size) == page_size + 1

\* the LIMIT of the page statement
PageLimit(page_size) == page_size

_get_paged_response(d, request_query, table_name, page, where_clause, sort_by, page_size, failAt) ==
  LET offset == Offset(page, page_size)
      last_item == LastItem(page, page_size)
      countq == SqlCount(table_name, where_clause)
      c == Run(d, countq, 1, failAt)
  IN IF ~c.ok THEN Raised("QueryError", Sent(countq, c))
     ELSE LET headers == IF HasNext(last_item, c.count)
                         THEN "Link" :> NextLink(table_name, request_query, page)
                         ELSE NoHeaders
              pageq == SqlPage(table_name, where_clause, sort_by, PageLimit(page_size), offset)
              r == _get_list_response(d, pageq, 2, failAt)
          IN [exc |-> r.exc, value |-> r.value, headers |-> headers, log |-> Sent(countq, c) \o r.log]

\* _get_single_response: fetchone() is None when no row matches, and
\* zip(column_names, None) raises TypeError
_get_single_response(d, query, k, failAt) ==
  LET cursor == Run(d, query, k, failAt)
  IN IF ~cursor.ok THEN Raised("QueryError", Sent(query, cursor))
     ELSE IF cursor.rows = <<>> THEN Raised("TypeError", Sent(query, cursor))
     ELSE Returned(ZipDict(cursor.columns, cursor.rows[1]), NoHeaders, Sent(query, cursor))

\* f"SELECT * FROM {table} WHERE {key} = '{id}'"
SingleQuery(t, id) == SqlSelect(t, <<WHERE, Cond(KeyColumn(t), "=", id)>>)

\* ItemsQuery comparing the item's own id
ItemsQuery_ById(order) == SqlSelect("items", <<WHERE, Cond("id", "=", order["id"])>>)

\* f"SELECT * FROM items WHERE order_id = '{order['id']}'"
ItemsQuery(order) == SqlSelect("items", <<WHERE, Cond("order_id", "=", order["id"])>>)

\* order["items"] = <list>
WithItems(order, items) == [f \in DOMAIN order \cup {"items"} |->
                              IF f = "items" THEN items ELSE order[f]]

\* the loop of _enrich_orders from order j on; done are the orders already
\* enriched, k the number of the next statement
RECURSIVE EnrichFrom(_, _, _, _, _, _, _)
EnrichFrom(d, orders, j, done, log, k, failAt) ==
  IF j > Len(orders) THEN Returned(done, NoHeaders, log)
  ELSE LET r == _get_list_response(d, ItemsQuery(orders[j]), k, failAt)
       IN IF r.exc # "" THEN Raised(r.exc, log \o r.log)
          ELSE EnrichFrom(d, orders, j + 1, Append(done, WithItems(orders[j], r.value)),
                          log \o r.log, k + 1, failAt)

\* _enrich_orders catching the failure and returning the orders enriched so far
RECURSIVE EnrichFrom_Partial(_, _, _, _, _, _, _)
EnrichFrom_Partial(d, orders, j, done, log, k, failAt) ==
  IF j > Len(orders) THEN Returned(done, NoHeaders, log)
  ELSE LET r == _get_list_response(d, ItemsQuery(orders[j]), k, failAt)
       IN IF r.exc # "" THEN Returned(done, NoHeaders, log \o r.log)
          ELSE EnrichFrom_Partial(d, orders, j + 1, Append(done, WithItems(orders[j], r.value)),
                                  log \o r.log, k + 1, failAt)

_enrich_orders_Partial(d, orders, k, failAt) ==
  EnrichFrom_Partial(d, orders, 1, <<>>, <<>>, k, failAt)

_enrich_orders(d, orders, k, failAt) == EnrichFrom(d, orders, 1, <<>>, <<>>, k, failAt)

\* WhereClause with the end date excluded
WhereClause_Exclusive(start_date, end_date) ==
  LET w1 == IF Truthy(start_date)
            THEN <<AND, Cond("ordered_at::DATE", ">=", start_date.v)>> ELSE <<>>
      w2 == IF Truthy(end_date)
            THEN w1 \o <<AND, Cond("ordered_at::DATE", "<", end_date.v)>> ELSE w1
  IN IF w2 # <<>> THEN <<WHERE>> \o Tail(w2) ELSE w2

\* the WHERE clause get_orders builds from start_date and end_date
WhereClause(start_date, end_date) ==
  LET w1 == IF Truthy(start_date)
            THEN <<AND, Cond("ordered_at::DATE", ">=", start_date.v)>> ELSE <<>>
      w2 == IF Truthy(end_date)
            THEN w1 \o <<AND, Cond("ordered_at::DATE", "<=", end_date.v)>> ELSE w1
  IN IF w2 # <<>> THEN <<WHERE>> \o Tail(w2) ELSE w2

\* the body of a list handler of a table without enrichment
ListHandler(d, table_name, request_query, failAt) ==
  _get_paged_response(d, request_query, table_name,
                      IntParam(request_query, "page", 1), <<>>, <<>>,
                      IntParam(request_query, "page_size", DEFAULT_PAGE_SIZE), failAt)

\* the body of get_orders
OrdersHandler(d, request_query, failAt) ==
  LET where_clause == WhereClause(StrParam(request_query, "start_date"),
                                  StrParam(request_query, "end_date"))
      orders == _get_paged_response(d, request_query, "orders",
                                    IntParam(request_query, "page", 1), where_clause, <<>>,
                                    IntParam(request_query, "page_size", DEFAULT_PAGE_SIZE),
                                    failAt)
  IN IF orders.exc # "" THEN orders
     ELSE LET e == _enrich_orders(d, orders.value, 3, failAt)
          IN [exc |-> e.exc, value |-> e.value, headers |-> orders.headers,
              log |-> orders.log \o e.log]

\* the body of a get-by-id handler of a table without enrichment
SingleHandler(d, t, id, failAt) == _get_single_response(d, SingleQuery(t, id), 1, failAt)

\* the body of get_order
OrderHandler(d, order_id, failAt) ==
  LET o == _get_single_response(d, SingleQuery("orders", order_id), 1, failAt)
  IN IF o.exc # "" THEN o
     ELSE LET e == _enrich_orders(d, <<o.value>>, 2, failAt)
          IN IF e.exc # "" THEN Raised(e.exc, o.log \o e.log)
             ELSE Returned(e.value[1], NoHeaders, o.log \o e.log)

\* what the framework sends: the returned value with the headers set on the
\* Response object, or, for an exception that left the handler, a 500 without them
HttpResponse(r) ==
  IF r.exc = "" THEN [status |-> 200, exc |-> "", body |-> r.value, headers |-> r.headers]
  ELSE [status |-> 500, exc |-> r.exc, body |-> <<>>, headers |-> NoHeaders]

VARIABLES db, pc, req, resp, sqlLog, chain

vars == <<db, pc, req, resp, sqlLog, chain>>

\* statement numbers at which the engine may fail; 0 is no failure
FailPoints == 0..(MaxRows + 2)

Init ==
  /\ \E n \in 0..MaxRows, m \in 0..MaxItems : db = MkDb(n, m)
  /\ pc = "idle"
  /\ req = <<>>
  /\ resp = <<>>
  /\ sqlLog = <<>>
  /\ chain = <<>>

(***************************************************************************)
(* The client.                                                             *)
(***************************************************************************)
Param(name, values) == {<<>>} \cup {<< <<name, v>> >> : v \in values}

PageValues == {Str(p) : p \in 0..MaxPage}
PageSizeValues == {Str(p) : p \in -1..MaxPageSize}
\* start_date and end_date values: empty, the dates, and text that is no date
DateValues == {"", "not-a-date"} \cup {DateStrs[i] : i \in DOMAIN DateStrs}
OtherValues == {"a b", "a+b"}

\* GET /<table> with a query string: an optional repeated page_size, then
\* page, page_size, and start_date and end_date (orders) or a parameter no
\* handler reads (the other tables)
SendList ==
  /\ pc = "idle"
  /\ \E t \in Tables, rep \in Param("page_size", {"1"}), pg \in Param("page", PageValues),
        ps \in Param("page_size", PageSizeValues) :
       \E a \in (IF t = "orders" THEN Param("start_date", DateValues)
                 ELSE Param("q", OtherValues)),
          b \in (IF t = "orders" THEN Param("end_date", DateValues) ELSE {<<>>}) :
         /\ rep # <<>> => ps # <<>>
         /\ req' = [kind |-> "list", table |-> t, id |-> "", query |-> rep \o pg \o ps \o a \o b]
         /\ chain' = [start |-> req', rows |-> <<>>]
  /\ pc' = "pending"
  /\ UNCHANGED <<db, resp, sqlLog>>

\* GET /<table>/<id>
SendGet ==
  /\ pc = "idle"
  /\ \E t \in Tables : \E id \in Identifiers(t) :
       /\ req' = [kind |-> "get", table |-> t, id |-> id, query |-> <<>>]
       /\ chain' = [start |-> req', rows |-> <<>>]
  /\ pc' = "pending"
  /\ UNCHANGED <<db, resp, sqlLog>>

\* the request a Link header value names
LinkRequest(link) ==
  [kind |-> "list", table |-> link.url[2], id |-> "",
   query |-> [i \in DOMAIN link.qs |-> <<UnquotePlus(link.qs[i][1]), UnquotePlus(link.qs[i][2])>>]]

\* the client keeps the page it received and requests the next one
FollowLink ==
  /\ pc = "responded"
  /\ resp.status = 200
  /\ "Link" \in DOMAIN resp.headers
  /\ LET next == LinkRequest(resp.headers["Link"])
     IN /\ IntParam(next.query, "page", 1) <= MaxPage
        /\ req' = next
        /\ chain' = [chain EXCEPT !.rows = @ \o resp.body]
  /\ pc' = "pending"
  /\ resp' = <<>>
  /\ sqlLog' = <<>>
  /\ UNCHANGED db

\* the client is done with the response
Finish ==
  /\ pc = "responded"
  /\ pc' = "idle"
  /\ req' = <<>>
  /\ resp' = <<>>
  /\ sqlLog' = <<>>
  /\ chain' = <<>>
  /\ UNCHANGED db

(***************************************************************************)
(* The handlers.                                                           *)
(***************************************************************************)
Routed(kind, t) == pc = "pending" /\ req.kind = kind /\ req.table = t

Respond(r) ==
  /\ resp' = HttpResponse(r)
  /\ sqlLog' = r.log
  /\ pc' = "responded"
  /\ UNCHANGED <<db, req, chain>>

get_customers ==
  /\ Routed("list", "customers")
  /\ \E failAt \in FailPoints : Respond(ListHandler(db, "customers", req.query, failAt))

get_customer ==
  /\ Routed("get", "customers")
  /\ \E failAt \in FailPoints : Respond(SingleHandler(db, "customers", req.id, failAt))

get_orders ==
  /\ Routed("list", "orders")
  /\ \E failAt \in FailPoints : Respond(OrdersHandler(db, req.query, failAt))

get_order ==
  /\ Routed("get", "orders")
  /\ \E failAt \in FailPoints : Respond(OrderHandler(db, req.id, failAt))

get_items ==
  /\ Routed("list", "items")
  /\ \E failAt \in FailPoints : Respond(ListHandler(db, "items", req.query, failAt))

get_item ==
  /\ Routed("get", "items")
  /\ \E failAt \in FailPoints : Respond(SingleHandler(db, "items", req.id, failAt))

get_products ==
  /\ Routed("list", "products")
  /\ \E failAt \in FailPoints : Respond(ListHandler(db, "products", req.query, failAt))

get_product ==
  /\ Routed("get", "products")
  /\ \E failAt \in FailPoints : Respond(SingleHandler(db, "products", req.id, failAt))

get_stores ==
  /\ Routed("list", "stores")
  /\ \E failAt \in FailPoints : Respond(ListHandler(db, "stores", req.query, failAt))

get_store ==
  /\ Routed("get", "stores")
  /\ \E failAt \in FailPoints : Respond(SingleHandler(db, "stores", req.id, failAt))

get_supplies ==
  /\ Routed("list", "supplies")
  /\ \E failAt \in FailPoints : Respond(ListHandler(db, "supplies", req.query, failAt))

get_supply ==
  /\ Routed("get", "supplies")
  /\ \E failAt \in FailPoints : Respond(SingleHandler(db, "supplies", req.id, failAt))

Next ==
  \/ SendList
  \/ SendGet
  \/ FollowLink
  \/ Finish
  \/ get_customers
  \/ get_customer
  \/ get_orders
  \/ get_order
  \/ get_items
  \/ get_item
  \/ get_products
  \/ get_product
  \/ get_stores
  \/ get_store
  \/ get_supplies
  \/ get_supply

Spec == Init /\ [][Next]_vars

(***************************************************************************)
(* What the properties speak of, stated on the database and the request,   *)
(* not through the handlers.                                               *)
(***************************************************************************)
Answered == pc = "responded"
Page200 == Answered /\ req.kind = "list" /\ resp.status = 200
HasLink == "Link" \in DOMAIN resp.headers
SomeFailed == \E i \in DOMAIN sqlLog : ~sqlLog[i].ok

ReqPage == IntParam(req.query, "page", 1)
ReqPageSize == IntParam(req.query, "page_size", DEFAULT_PAGE_SIZE)
ReqOffset == (ReqPage - 1) * ReqPageSize

\* a date bound of the query string that is given and not empty
HasBound(query, name) == HasParam(query, name) /\ LastValue(query, name) # ""
DayOfBound(query, name) ==
  IF IsDateStr(LastValue(query, name)) THEN ParseDate(LastValue(query, name)) ELSE 0

\* the rows of table t the filter of a list request keeps (orders: the date bounds)
InFilter(t, row, query) ==
  t = "orders" =>
    /\ HasBound(query, "start_date") => DayOfBound(query, "start_date") <= row[3].day
    /\ HasBound(query, "end_date") => row[3].day <= DayOfBound(query, "end_date")

Filtered(t, query) == SelectSeq(db[t], LAMBDA r : InFilter(t, r, query))

TotalCount == Len(Filtered(req.table, req.query))

AsRecord(t, row) == [c \in {Columns(t)[i] : i \in DOMAIN Columns(t)} |-> row[ColIndex(t, c)]]

\* the item rows whose order_id is oid, as records, in table order
ItemsOf(oid) ==
  LET rows == SelectSeq(db["items"], LAMBDA r : r[2] = oid)
  IN [i \in DOMAIN rows |-> AsRecord("items", rows[i])]

\* a row as the API returns it: orders carry their items
Shown(t, row) ==
  IF t = "orders" THEN AsRecord(t, row) @@ ("items" :> ItemsOf(row[1])) ELSE AsRecord(t, row)

ShownAll(t, query) ==
  LET rows == Filtered(t, query) IN [i \in DOMAIN rows |-> Shown(t, rows[i])]

\* the rows of a sequence from position lo to position hi, clipped to the sequence
Clip(seq, lo, hi) ==
  LET a == IF lo < 1 THEN 1 ELSE lo
      b == IF hi > Len(seq) THEN Len(seq) ELSE hi
  IN IF a > b THEN <<>> ELSE [i \in 1..(b - a + 1) |-> seq[a + i - 1]]

\* the page a list request asks for
ShownPage == Clip(ShownAll(req.table, req.query), ReqOffset + 1, ReqOffset + ReqPageSize)

\* the rows of the table whose key is the requested identifier
KeyRows == SelectSeq(db[req.table], LAMBDA r : r[ColIndex(req.table, KeyColumn(req.table))] = req.id)

\* the chain of requests began at page 1 of a list endpoint with a positive page size
FromFirstPage ==
  /\ chain.start.kind = "list"
  /\ IntParam(chain.start.query, "page", 1) = 1
  /\ IntParam(chain.start.query, "page_size", DEFAULT_PAGE_SIZE) > 0

\* the values given under a name, in the order given
ValuesOf(query, name) ==
  LET hits == SelectSeq(query, LAMBDA p : p[1] = name) IN [i \in DOMAIN hits |-> hits[i][2]]

Names(query) == {query[i][1] : i \in DOMAIN query}

(***************************************************************************)
(* Properties.                                                             *)
(***************************************************************************)

\* C1: a traversal that starts at page 1 with a positive page size and follows
\* every Link header until a page carries none has received exactly the rows
\* of the table (under the request's filter), each once, in table order; and
\* a page that carries a Link header leaves rows still to come.
C1_TraversalYieldsTable ==
  (Answered /\ FromFirstPage /\ resp.status = 200) =>
    /\ req.table = chain.start.table
    /\ HasLink => ReqPage * ReqPageSize < TotalCount
    /\ ~HasLink =>
         LET all == chain.rows \o resp.body
         IN /\ Len(all) = Len(Filtered(chain.start.table, chain.start.query))
            /\ all = ShownAll(chain.start.table, chain.start.query)
            /\ \A i, j \in DOMAIN all : i # j => all[i] # all[j]

\* a traversal of three rows in pages of two has ended on the short second page
C1_Witness ==
  /\ Answered /\ FromFirstPage /\ resp.status = 200 /\ ~HasLink
  /\ ReqPage = 2 /\ ReqPageSize = 2
  /\ Len(chain.rows) = 2 /\ Len(resp.body) = 1

\* C2: a list request that is answered with a page carries a Link header
\* exactly when offset + page_size < total_count; at offset + page_size =
\* total_count the rows are returned and the header is absent.
C2_LinkIffMoreRows ==
  Page200 =>
    /\ HasLink <=> (ReqOffset + ReqPageSize < TotalCount)
    /\ (ReqOffset + ReqPageSize = TotalCount /\ ReqPageSize > 0) =>
         /\ Len(resp.body) = ReqPageSize
         /\ DOMAIN resp.headers = {}

\* page=1, page_size=2 on a table of two rows
C2_Witness ==
  /\ Page200 /\ HasParam(req.query, "page_size")
  /\ ReqPage = 1 /\ ReqPageSize = 2 /\ TotalCount = 2 /\ Len(db[req.table]) = 2
  /\ Len(resp.body) = 2 /\ ~HasLink

\* C3: a get-by-id request whose identifier matches no row, none of whose
\* statements failed, ends in NotFound (404).
C3_MissingIdIsNotFound ==
  (Answered /\ req.kind = "get" /\ KeyRows = <<>> /\ ~SomeFailed) => resp.status = 404

\* C4: the orders handlers return the orders the page or single statement
\* selected, in that order, each with its columns unchanged and one more
\* field, items: the list (possibly empty) of the item rows of that order.
C4_EnrichmentAttachesItems ==
  (Answered /\ req.table = "orders" /\ resp.status = 200) =>
    LET input == IF req.kind = "list"
                 THEN Clip(Filtered("orders", req.query), ReqOffset + 1, ReqOffset + ReqPageSize)
                 ELSE <<KeyRows[1]>>
        output == IF req.kind = "list" THEN resp.body ELSE <<resp.body>>
        cols == {Columns("orders")[i] : i \in DOMAIN Columns("orders")}
    IN /\ Len(output) = Len(input)
       /\ \A i \in DOMAIN output :
            /\ DOMAIN output[i] = cols \cup {"items"}
            /\ \A c \in cols : output[i][c] = input[i][ColIndex("orders", c)]
            /\ DOMAIN output[i]["items"] = 1..Len(output[i]["items"])
            /\ output[i]["items"] = ItemsOf(input[i][1])

\* a page of orders holding an order with two items and an order with none
C4_Witness ==
  /\ Answered /\ req.table = "orders" /\ req.kind = "list" /\ resp.status = 200
  /\ \E i, j \in DOMAIN resp.body :
       /\ Len(resp.body[i]["items"]) = 2
       /\ resp.body[j]["items"] = <<>>

\* C5 as stated: the link targets the list path of the same resource with
\* relation next, and its query parameters are the request's, every value of
\* every name, except page, which is the requested page plus one.
C5_LinkKeepsEveryParameter ==
  (Page200 /\ HasLink) =>
    LET link == resp.headers["Link"]
        lq == LinkRequest(link).query
    IN /\ link.url = <<API_V1_PREFIX, req.table>>
       /\ link.rel = "next"
       /\ ValuesOf(lq, "page") = <<Str(ReqPage + 1)>>
       /\ \A n \in (Names(req.query) \cup Names(lq)) \ {"page"} :
            ValuesOf(lq, n) = ValuesOf(req.query, n)

\* C5 amended: the link's query parameters are the request's names, each once
\* with the last value given under it, except page, which is the requested
\* page plus one.
C5_LinkKeepsLastValues ==
  (Page200 /\ HasLink) =>
    LET link == resp.headers["Link"]
        lq == LinkRequest(link).query
    IN /\ link.url = <<API_V1_PREFIX, req.table>>
       /\ link.rel = "next"
       /\ Names(lq) = Names(req.query) \cup {"page"}
       /\ ValuesOf(lq, "page") = <<Str(ReqPage + 1)>>
       /\ \A n \in Names(req.query) \ {"page"} :
            ValuesOf(lq, n) = <<LastValue(req.query, n)>>

\* a link for a request that names page_size twice, gives no page and carries
\* a value that needs quoting
C5_Witness ==
  /\ Page200 /\ HasLink
  /\ Len(ValuesOf(req.query, "page_size")) = 2
  /\ ~HasParam(req.query, "page")
  /\ ValuesOf(req.query, "q") = <<"a+b">>

\* C6: the count and the page statement of the orders list carry the same
\* WHERE clause: none without a bound, else the bounds given joined by AND;
\* and every order returned lies within the bounds given, both inclusive.
C6_DateFilter ==
  (Answered /\ req.kind = "list" /\ req.table = "orders") =>
    LET s == HasBound(req.query, "start_date")
        e == HasBound(req.query, "end_date")
        lower == Cond("ordered_at::DATE", ">=", LastValue(req.query, "start_date"))
        upper == Cond("ordered_at::DATE", "<=", LastValue(req.query, "end_date"))
        clause == CASE s /\ e -> <<WHERE, lower, AND, upper>>
                    [] s /\ ~e -> <<WHERE, lower>>
                    [] ~s /\ e -> <<WHERE, upper>>
                    [] OTHER -> <<>>
    IN /\ Len(sqlLog) >= 1
       /\ sqlLog[1].sql.kind = "count" /\ sqlLog[1].sql.where = clause
       /\ Len(sqlLog) >= 2 =>
            /\ sqlLog[2].sql.kind = "select"
            /\ sqlLog[2].sql.where = sqlLog[1].sql.where
       /\ resp.status = 200 =>
            \A i \in DOMAIN resp.body :
              /\ s => DayOfBound(req.query, "start_date") <= resp.body[i]["ordered_at"].day
              /\ e => resp.body[i]["ordered_at"].day <= DayOfBound(req.query, "end_date")

\* both bounds given: an order late on the end date is returned, an order of
\* the table is left out
C6_Witness ==
  /\ Answered /\ req.kind = "list" /\ req.table = "orders" /\ resp.status = 200
  /\ HasBound(req.query, "start_date") /\ HasBound(req.query, "end_date")
  /\ \E i \in DOMAIN resp.body :
       /\ resp.body[i]["ordered_at"].day = DayOfBound(req.query, "end_date")
       /\ resp.body[i]["ordered_at"].hour = 23
  /\ TotalCount < Len(db["orders"])

\* C7: a request one of whose statements failed ends in an error without
\* rows; a request none of whose statements failed returns the whole page,
\* or the whole record when there is one.
C7_NoPartialResult ==
  Answered =>
    /\ SomeFailed => (resp.status = 500 /\ resp.body = <<>> /\ DOMAIN resp.headers = {})
    /\ resp.status # 200 => resp.body = <<>>
    /\ (~SomeFailed /\ req.kind = "list") => (resp.status = 200 /\ resp.body = ShownPage)
    /\ (~SomeFailed /\ req.kind = "get" /\ KeyRows # <<>>) =>
         (resp.status = 200 /\ resp.body = Shown(req.table, KeyRows[1]))

\* the items statement of the second order of a page failed
C7_Witness ==
  /\ Answered /\ req.kind = "list" /\ req.table = "orders"
  /\ Len(sqlLog) = 4 /\ ~sqlLog[4].ok /\ sqlLog[3].ok
  /\ resp.status = 500 /\ resp.body = <<>>

\* C8: a page holds at most page_size rows.
C8_AtMostPageSize == Page200 => Len(resp.body) <= ReqPageSize

\* a full page of a table that holds more rows
C8_Witness ==
  /\ Page200 /\ ReqPageSize >= 1 /\ Len(resp.body) = ReqPageSize
  /\ ReqOffset + ReqPageSize < TotalCount

\* C9: with a positive page size, a page whose offset is at or beyond the
\* number of rows is empty and carries no Link header.
C9_BeyondLastPage ==
  (Page200 /\ ReqPageSize > 0 /\ ReqOffset >= TotalCount) =>
    (resp.body = <<>> /\ ~HasLink)

\* a page beyond the last one of a table that holds rows
C9_Witness ==
  /\ Page200 /\ ReqPageSize > 0 /\ ReqOffset >= TotalCount /\ TotalCount > 0
  /\ resp.body = <<>>

\* C10: in a chain of requests that began at page 1 with page_size 0 on a
\* table holding a row, every request has page_size 0, and every page
\* returned is empty and carries a Link header to the next page.
C10_ZeroPageSizeNeverEnds ==
  (/\ pc \in {"pending", "responded"}
   /\ chain.start.kind = "list"
   /\ IntParam(chain.start.query, "page", 1) = 1
   /\ IntParam(chain.start.query, "page_size", DEFAULT_PAGE_SIZE) = 0
   /\ Len(Filtered(chain.start.table, chain.start.query)) >= 1) =>
    /\ req.table = chain.start.table
    /\ ReqPageSize = 0
    /\ TotalCount >= 1
    /\ (Answered /\ resp.status = 200) =>
         /\ resp.body = <<>>
         /\ HasLink
         /\ IntParam(LinkRequest(resp.headers["Link"]).query, "page", 1) = ReqPage + 1
         /\ IntParam(LinkRequest(resp.headers["Link"]).query, "page_size", DEFAULT_PAGE_SIZE) = 0

\* the third page of such a chain
C10_Witness ==
  /\ Answered /\ resp.status = 200
  /\ chain.start.kind = "list"
  /\ IntParam(chain.start.query, "page", 1) = 1
  /\ IntParam(chain.start.query, "page_size", DEFAULT_PAGE_SIZE) = 0
  /\ ReqPage = 3 /\ HasLink /\ resp.body = <<>>
====
